---- MODULE Spec2Model ----
(***************************************************************************)
(* Model of backend/shirodhara_device.py: the session state shared by the  *)
(* command listener (on_command_snapshot), the telemetry loop and the      *)
(* sensor sampler, with the actuator (LED PWM) outputs.                    *)
(*                                                                         *)
(* Units.  Time is counted in ticks of SENSOR_SAMPLE_INTERVAL (0.02 s), so *)
(* one second is TicksPerSec ticks.  Flow (ml/min) and temperature (C) are *)
(* fixed-point numbers in thousandths; bpm is in tenths (the code rounds   *)
(* it to one decimal).  Durations are in seconds, as in session_info.      *)
(***************************************************************************)
EXTENDS Integers, Sequences, FiniteSets, TLC

VARIABLES
    now,             \* time.time(), in ticks
    session_active,  \* global flag session_active
    session_info,    \* global dict session_info: a function on a subset of Keys
    flow_duty,       \* duty cycle last written to flow_pwm
    temp_duty,       \* duty cycle last written to temp_pwm
    ir_buffer,       \* global list ir_buffer of <<t, ir>>
    bpm,             \* global bpm: None, or <<tenths of a beat per minute>>
    rr_intervals,    \* global list rr_intervals, in ticks
    wave,            \* the signal the sensor port currently delivers
    tpc,             \* position of the telemetry thread inside its loop body
    tloc,            \* live locals of the telemetry iteration (elapsed, duration, af, at)
    tele,            \* what the current telemetry iteration has published
    last,            \* observation of the last command handling (ack, calls made)
    pending,         \* << >>, or <<c>>: c was handled and its ack has not landed
    mpc              \* position of main: "run", "interrupted", "off", "exit"

vars == <<now, session_active, session_info, flow_duty, temp_duty,
          ir_buffer, bpm, rr_intervals, wave, tpc, tloc, tele, last, pending, mpc>>

---------------------------------------------------------------------------
(* Program constants *)

TicksPerSec == 50
PULSE_MIN == 40
PULSE_MAX == 150
TEMP_MAX_SAFE == 48
FLOW_MIN_SAFE == 2
StaleSeconds == 300
DefaultDurationMin == 45
MinSamples == 40
WindowSeconds == 12

\* Python's None for bpm: the published value is the empty tuple or <<tenths>>
None == << >>

(* Bounds of the model *)

MaxTime == 825       \* the clock stops advancing here (16.5 s)
MaxSampleTime == 44  \* the sampler takes its samples at ticks 0 .. MaxSampleTime - 1
AutoSteps == 20      \* apply_auto_mode is applied at elapsed = k/AutoSteps of the duration
MaxPulse == 220      \* and at the pulses None, 0.0, 1.0 .. MaxPulse (bpm)

Quantum == (11 * TicksPerSec) \div 2   \* the coarse clock step: 5.5 s

---------------------------------------------------------------------------
(* session_info as a Python dict *)

Keys == {"patient_id", "session_id", "mode", "duration_sec",
         "local_start_ts", "flow_value", "temp_value"}

EmptyInfo == [k \in {} |-> 0]

Put(info, k, v) == [x \in (DOMAIN info) \cup {k} |-> IF x = k THEN v ELSE info[x]]

Get(info, k, default) == IF k \in DOMAIN info THEN info[k] ELSE default

Has(info, k) == k \in DOMAIN info

Max(a, b) == IF a >= b THEN a ELSE b
Min(a, b) == IF a <= b THEN a ELSE b

---------------------------------------------------------------------------
(* Actuator port: the LED PWM duty cycles *)

\* int() truncates toward zero
TruncDiv(a, b) == IF a >= 0 THEN a \div b ELSE -((-a) \div b)

\* set_flow_led: duty = max(0, min(100, int(value / 200.0 * 100)))
FlowDuty(v) == Max(0, Min(100, TruncDiv(v * 100, 200 * 1000)))

\* set_temp_led: duty = max(0, min(100, int((value - 30.0) / 20.0 * 100)))
TempDuty(v) == Max(0, Min(100, TruncDiv((v - 30 * 1000) * 100, 20 * 1000)))

---------------------------------------------------------------------------
(* Values carried by commands and by the fetched session settings.  A     *)
(* Firestore field is absent (None), a number, or a string.               *)

NoVal == [kind |-> "none", num |-> 0, str |-> ""]
Num(n) == [kind |-> "num", num |-> n, str |-> ""]
Str(s) == [kind |-> "str", num |-> 0, str |-> s]

\* Python truth value of a field ("if val:", "if pid and sid:")
Truthy(v) == \/ v.kind = "num" /\ v.num # 0
             \/ v.kind = "str" /\ v.str # ""

\* float(v) succeeds on a number and raises ValueError on non-numeric text
Floatable(v) == v.kind = "num"

\* dict.get(key, default) followed by float(): the value, or the default
FloatOr(v, default) == IF v.kind = "none" THEN default ELSE v.num

---------------------------------------------------------------------------
(* Auto mode: apply_auto_mode(elapsed_sec, duration_sec, current_bpm)      *)

Pi == 3 * 1000 + 142     \* pi in thousandths of a radian

\* 1000 * sin(x / 1000) for 0 <= x <= Pi (Bhaskara's rational approximation,
\* error below 0.002): stands for math.sin
SinHalf(x) == (16 * x * (Pi - x)) \div ((5 * Pi * Pi - 4 * x * (Pi - x)) \div 1000)

SinMilli(x) ==
    LET r == x % (2 * Pi)
    IN  IF r <= Pi THEN SinHalf(r) ELSE -SinHalf(r - Pi)

Clamp(lo, hi, x) == Max(lo, Min(hi, x))

\* safe_bpm = current_bpm if current_bpm is not None else 72.0   (tenths)
SafeBpm(b) == IF b = None THEN 720 ELSE b[1]

\* a flow offset without the clamp
FlowOffsetUnclamped(b) == (SafeBpm(b) - 600) * 10

\* flow_offset = max(-2, min(5, (safe_bpm - 60) * 0.1))          (thousandths)
FlowOffset(b) == Clamp(-2000, 5000, (SafeBpm(b) - 600) * 10)

\* temp_offset = max(-0.5, min(1.5, (safe_bpm - 60) * 0.05))     (thousandths)
TempOffset(b) == Clamp(-500, 1500, (SafeBpm(b) - 600) * 5)

\* an apply_auto_mode whose ramps start and end 1.0 ml/min and 0.5 C higher
apply_auto_mode_high_ramps(e, d, b) ==
    LET D == d * TicksPerSec
    IN  IF 10 * e < D THEN
            [flow |-> 21000 + (140000 * e) \div D,
             temp |-> 37500 + (15000 * e) \div D]
        ELSE IF 10 * e > 9 * D THEN
            [flow |-> 35000 - (14000 * (10 * e - 9 * D)) \div D,
             temp |-> 39000 - (1500 * (10 * e - 9 * D)) \div D]
        ELSE
            [flow |-> 30000 + FlowOffset(b)
                        + SinMilli((e * 1000) \div (5 * TicksPerSec)) \div 2,
             temp |-> 38000 + TempOffset(b)]

\* elapsed in ticks, duration in seconds (d > 0), b the published bpm.
\* progress = elapsed / duration; progress < 0.1 is 10 e < D, with D the
\* duration in ticks.
apply_auto_mode(e, d, b) ==
    LET D == d * TicksPerSec
    IN  IF 10 * e < D THEN
            [flow |-> 20000 + (150000 * e) \div D,
             temp |-> 37000 + (20000 * e) \div D]
        ELSE IF 10 * e > 9 * D THEN
            [flow |-> 35000 - (15000 * (10 * e - 9 * D)) \div D,
             temp |-> 39000 - (2000 * (10 * e - 9 * D)) \div D]
        ELSE
            [flow |-> 30000 + FlowOffset(b)
                        + SinMilli((e * 1000) \div (5 * TicksPerSec)) \div 2,
             temp |-> 38000 + TempOffset(b)]

---------------------------------------------------------------------------
(* Commands as delivered to on_command_snapshot.                           *)
(*   ts    the 'timestamp' field: kind "none" (absent), "datetime" (has    *)
(*         timestamp()), "seconds" (has .seconds), "other" (neither);      *)
(*         age = time.time() - ts_val in seconds, for the first two kinds  *)
(*   fetch the outcome of the metadata fetch: "error", "absent", "found"   *)
(*   fail  the remote call that raises during this handling, or "none"     *)

NoSettings == [duration |-> NoVal, mode |-> NoVal, flowRate |-> NoVal,
               temperature |-> NoVal]

Command(cmd, value, ts, pid, sid, fetch, settings, fail) ==
    [cmd |-> cmd, value |-> value, ts |-> ts, pid |-> pid, sid |-> sid,
     fetch |-> fetch, settings |-> settings, fail |-> fail]

\* The record a handling produces: the new shared state, the calls made to
\* the actuator and remote ports in order (log), the error put in the ack,
\* and whether an exception left the handler.
Outcome(active, info, fd, td, log, err, raised) ==
    [active |-> active, info |-> info, fd |-> fd, td |-> td, log |-> log,
     err |-> err, raised |-> raised]

\* (time.time() - ts_val) > 300
IsStale(ts) == ts.kind \in {"datetime", "seconds"} /\ ts.age > StaleSeconds

\* a handler that never refuses a start_session
StartNeverRefused(active) == FALSE

\* start_session is refused when session_active is set (line 500)
StartRefused(active) == active

\* session_info.clear()
Cleared(info) == EmptyInfo

\* a finalize_session that leaves session_active set
finalize_keeps_active(info, log) ==
    [active |-> TRUE, info |-> EmptyInfo, fd |-> 0, td |-> 0,
     log |-> log \o <<"off">>, err |-> "", raised |-> FALSE]

\* finalize_session(): hardware off, publish "completed" when the session
\* ids are known (a failing publish is caught), clear session_info.
finalize_session(info, log) ==
    LET ids == Truthy(Get(info, "patient_id", NoVal))
               /\ Truthy(Get(info, "session_id", NoVal))
    IN  Outcome(FALSE, Cleared(info), 0, 0,
                log \o <<"off">> \o (IF ids THEN <<"status_completed">> ELSE << >>),
                "", FALSE)

\* emergency_stop(reason): hardware off, global alert (not guarded), then the
\* per-session alert and status (guarded), then clear session_info.
emergency_stop(info, log, fail) ==
    LET ids == Truthy(Get(info, "patient_id", NoVal))
               /\ Truthy(Get(info, "session_id", NoVal))
    IN  IF fail = "alert"
        THEN Outcome(FALSE, info, 0, 0, log \o <<"off", "alert">>, "", TRUE)
        ELSE Outcome(FALSE, Cleared(info), 0, 0,
                     log \o <<"off", "alert">>
                         \o (IF ~ids THEN << >>
                             ELSE IF fail = "session_alert" THEN <<"session_alert">>
                             ELSE <<"session_alert", "status_stopped_emergency">>),
                     "", FALSE)

\* a start_session without fallback values
SessionConfigNoDefaults(c) ==
    [duration_sec |-> 0, mode |-> "manual", flow |-> 0, temp |-> 0]

\* The session configuration start_session ends up with: the fetched
\* settings, or the defaults when the fetch raises, finds nothing, or a
\* float() conversion of a fetched field raises (lines 507-533).
SessionConfig(c) ==
    LET st == c.settings
        usable == /\ c.fetch = "found"
                  /\ st.duration.kind # "str"
                  /\ st.flowRate.kind # "str"
                  /\ st.temperature.kind # "str"
    IN  IF usable
        THEN [duration_sec |->
                  (FloatOr(st.duration, DefaultDurationMin * 1000) * 60) \div 1000,
              mode |-> IF st.mode.kind = "none" THEN "manual" ELSE st.mode.str,
              flow |-> FloatOr(st.flowRate, 30 * 1000),
              temp |-> FloatOr(st.temperature, 40 * 1000)]
        ELSE [duration_sec |-> DefaultDurationMin * 60,
              mode |-> "manual",
              flow |-> 30 * 1000,
              temp |-> 40 * 1000]

\* session_info after an accepted start_session (lines 514-545)
StartedInfo(info, c, t) ==
    LET cfg == SessionConfig(c)
        i1 == Put(info, "duration_sec", cfg.duration_sec)
        i2 == Put(i1, "mode", cfg.mode)
        i3 == Put(i2, "patient_id", c.pid)
        i4 == Put(i3, "session_id", c.sid)
        i5 == Put(i4, "local_start_ts", t)
        i6 == Put(i5, "flow_value", cfg.flow)
    IN  Put(i6, "temp_value", cfg.temp)

start_session(c, active, info, fd, td, log, t) ==
    IF StartRefused(active)
    THEN Outcome(active, info, fd, td, log, "Session already active", FALSE)
    ELSE IF ~(Truthy(c.pid) /\ Truthy(c.sid))
    THEN Outcome(active, info, fd, td, log, "", FALSE)
    ELSE LET cfg == SessionConfig(c)
         IN  Outcome(TRUE, StartedInfo(info, c, t),
                     FlowDuty(cfg.flow), TempDuty(cfg.temp),
                     log \o <<"fetch", "flow_led", "temp_led", "status_active">>,
                     "", c.fail = "status")

set_flow(c, active, info, fd, td, log) ==
    IF c.value.kind = "none"
    THEN Outcome(active, info, fd, td, log, "", FALSE)
    ELSE IF ~Floatable(c.value)
    THEN Outcome(active, info, fd, td, log, "", TRUE)
    ELSE Outcome(active,
                 Put(Put(info, "flow_value", c.value.num), "mode", "manual"),
                 FlowDuty(c.value.num), td, log \o <<"flow_led">>, "", FALSE)

set_temp(c, active, info, fd, td, log) ==
    IF c.value.kind = "none"
    THEN Outcome(active, info, fd, td, log, "", FALSE)
    ELSE IF ~Floatable(c.value)
    THEN Outcome(active, info, fd, td, log, "", TRUE)
    ELSE Outcome(active,
                 Put(Put(info, "temp_value", c.value.num), "mode", "manual"),
                 fd, TempDuty(c.value.num), log \o <<"temp_led">>, "", FALSE)

set_mode(c, active, info, fd, td, log) ==
    IF Truthy(c.value)
    THEN Outcome(active, Put(info, "mode", c.value.str), fd, td, log, "", FALSE)
    ELSE Outcome(active, info, fd, td, log, "", FALSE)

\* The if / elif chain on cmd_name (lines 499-579)
Dispatch(c, active, info, fd, td, log, t) ==
    CASE c.cmd = "start_session"  -> start_session(c, active, info, fd, td, log, t)
      [] c.cmd = "stop_session"   -> finalize_session(info, log)
      [] c.cmd = "emergency_stop" -> emergency_stop(info, log, c.fail)
      [] c.cmd = "set_flow"       -> set_flow(c, active, info, fd, td, log)
      [] c.cmd = "set_temp"       -> set_temp(c, active, info, fd, td, log)
      [] c.cmd = "set_mode"       -> set_mode(c, active, info, fd, td, log)
      [] OTHER                    -> Outcome(active, info, fd, td, log, "", FALSE)

\* One not-yet-acknowledged ADDED change handled by on_command_snapshot
\* (lines 471-581).  A stale command is acknowledged with "stale_command" and
\* skipped; when that acknowledgement raises, the exception is caught by the
\* handler of the timestamp check (line 492) and the command is dispatched.
\* acks counts the acknowledgements written for the command.
Acknowledge(o, c, stale) ==
    [out |-> [o EXCEPT !.log = IF o.raised THEN @ ELSE @ \o <<"ack">>,
                       !.raised = @ \/ c.fail = "ack"],
     acks |-> IF o.raised \/ c.fail = "ack" THEN 0 ELSE 1,
     stale |-> stale]

Handle(c, active, info, fd, td, t) ==
    IF IsStale(c.ts) /\ c.fail # "stale_ack"
    THEN [out |-> Outcome(active, info, fd, td, <<"ack_stale">>, "stale_command", FALSE),
          acks |-> 1, stale |-> TRUE]
    ELSE Acknowledge(Dispatch(c, active, info, fd, td,
                              IF IsStale(c.ts) THEN <<"ack_stale">> ELSE << >>, t),
                     c, IsStale(c.ts))

---------------------------------------------------------------------------
(* Inputs *)

Fresh == [kind |-> "datetime", age |-> StaleSeconds]
Old == [kind |-> "datetime", age |-> StaleSeconds + 1]
OldSeconds == [kind |-> "seconds", age |-> StaleSeconds + 1]
OldOther == [kind |-> "other", age |-> StaleSeconds + 1]
NoTs == [kind |-> "none", age |-> 0]

\* <<timestamp, failing call>>: each failure in F with a fresh timestamp, the
\* other timestamps with no failure, and an old one whose stale
\* acknowledgement fails
TsFail(F) == {<<Fresh, f>> : f \in F \cup {"none"}}
             \cup {<<ts, "none">> : ts \in {NoTs, Old, OldSeconds, OldOther}}
             \cup {<<Old, "stale_ack">>}

\* <<fetch outcome, settings>> of the metadata document; duration is in
\* thousandths of a minute, flowRate and temperature in thousandths
MetaSet ==
    {<<"error", NoSettings>>,
     <<"absent", NoSettings>>,
     <<"found", NoSettings>>,
     <<"found", [duration |-> Num(200), mode |-> Str("auto"),
                 flowRate |-> Num(25 * 1000), temperature |-> Num(38 * 1000)]>>,
     <<"found", [duration |-> Num(0), mode |-> Str("auto"),
                 flowRate |-> NoVal, temperature |-> NoVal]>>,
     <<"found", [duration |-> Num(-1000), mode |-> NoVal,
                 flowRate |-> Num(1 * 1000), temperature |-> Num(50 * 1000)]>>,
     <<"found", [duration |-> Str("abc"), mode |-> Str("auto"),
                 flowRate |-> Num(25 * 1000), temperature |-> NoVal]>>}

\* <<patientId, sessionId, metadata>>
StartSet == {<<Str("p1"), Str("s1"), m>> : m \in MetaSet}
            \cup {<<Str("p1"), Str("s2"), <<"absent", NoSettings>> >>,
                  <<NoVal, Str("s1"), <<"absent", NoSettings>> >>}

SetpointValues == {NoVal, Str("abc"), Num(1 * 1000), Num(50 * 1000)}

ModeValues == {NoVal, Str("auto"), Str("manual"), Str("turbo")}

\* every start with a fresh timestamp and no failure; the start of p1/s1
\* without metadata with every timestamp and failure
StartCommands ==
    {Command("start_session", NoVal, Fresh, st[1], st[2], st[3][1], st[3][2], "none") :
        st \in StartSet}
    \cup {Command("start_session", NoVal, x[1], Str("p1"), Str("s1"), "absent",
                  NoSettings, x[2]) : x \in TsFail({"status"})}

StopCommands ==
    {Command("stop_session", NoVal, x[1], NoVal, NoVal, "absent", NoSettings, x[2]) :
        x \in TsFail({})}

PowerCommands ==
    {Command("set_power", NoVal, x[1], NoVal, NoVal, "absent", NoSettings, x[2]) :
        x \in TsFail({})}

EmergencyCommands ==
    {Command("emergency_stop", NoVal, x[1], NoVal, NoVal, "absent", NoSettings, x[2]) :
        x \in TsFail({"alert", "session_alert"})}

SetpointCommands ==
    {Command(cmd, v, x[1], NoVal, NoVal, "absent", NoSettings, x[2]) :
        cmd \in {"set_flow", "set_temp"}, v \in SetpointValues, x \in TsFail({})}

ModeCommands ==
    {Command("set_mode", v, x[1], NoVal, NoVal, "absent", NoSettings, x[2]) :
        v \in ModeValues, x \in TsFail({})}

\* The commands of the session life cycle, with every failure
LifecycleCommands == StartCommands \cup StopCommands \cup EmergencyCommands

\* The commands of an operator adjusting a session: no remote call fails,
\* the timestamp is fresh, the session is p1/s1 with the default settings,
\* the 12 s auto settings or the settings outside the safe bounds
ControlCommands ==
    {c \in StartCommands \cup StopCommands \cup SetpointCommands \cup ModeCommands
            \cup PowerCommands :
        /\ c.fail = "none"
        /\ c.ts = Fresh
        /\ c.cmd = "start_session" =>
               /\ c.sid = Str("s1")
               /\ c.fetch \in {"absent", "found"}
               /\ c.settings.flowRate.kind = c.settings.duration.kind}

---------------------------------------------------------------------------
(* State *)

NoLocals == [elapsed |-> 0, duration |-> 0, af |-> 0, at |-> 0]

NoTele == [kind |-> "none", pulse |-> 0]

InitProgram ==
    /\ now = 0
    /\ session_active = FALSE
    /\ session_info = EmptyInfo
    /\ flow_duty = 0
    /\ temp_duty = 0
    /\ ir_buffer = << >>
    /\ bpm = None
    /\ rr_intervals = << >>
    /\ tpc = "head"
    /\ tloc = NoLocals
    /\ tele = NoTele
    /\ last = [cmd |-> "", stale |-> FALSE, err |-> "", acks |-> 0,
               raised |-> FALSE, log |-> << >>]
    /\ pending = << >>
    /\ mpc = "run"

\* the sensor delivers a constant signal
Init == InitProgram /\ wave = "flat"

sampler_vars == <<ir_buffer, bpm, rr_intervals, wave>>
tele_vars == <<tpc, tloc, tele>>
main_vars == <<pending, mpc>>

\* global stop_threads: set by main on KeyboardInterrupt (line 632)
stop_threads == mpc # "run"

---------------------------------------------------------------------------
(* Command listener: on_command_snapshot handles one command *)

HandleCommand(c) ==
    \E h \in {Handle(c, session_active, session_info, flow_duty, temp_duty, now)} :
        /\ session_active' = h.out.active
        /\ session_info' = h.out.info
        /\ flow_duty' = h.out.fd
        /\ temp_duty' = h.out.td
        /\ last' = [cmd |-> c.cmd, stale |-> h.stale, err |-> h.out.err,
                    acks |-> h.acks, raised |-> h.out.raised, log |-> h.out.log]
        /\ UNCHANGED <<now, sampler_vars, tele_vars>>

\* a command delivered once, by a listener that runs until the process exits
OnCommand(c) == HandleCommand(c) /\ UNCHANGED main_vars

---------------------------------------------------------------------------
(* Telemetry loop: one iteration of the while loop, in the steps at which *)
(* the other threads can run between its reads and writes of the globals  *)

\* lines 408-411: the loop ends when stop_threads is set; an idle iteration
\* sleeps and returns to the loop head
TeleHead ==
    /\ tpc = "head"
    /\ IF stop_threads
       THEN tpc' = "done" /\ UNCHANGED tele
       ELSE IF session_active
       THEN tpc' = "time" /\ tele' = NoTele
       ELSE UNCHANGED <<tpc, tele>>
    /\ UNCHANGED <<now, session_active, session_info, flow_duty, temp_duty,
                   sampler_vars, tloc, last, main_vars>>

\* elapsed >= duration (line 422), elapsed in ticks and duration in seconds
Expired(elapsed, duration) == elapsed >= duration * TicksPerSec

\* lines 415-422: record the start time if missing, read elapsed and duration
TeleTime ==
    /\ tpc = "time"
    /\ LET info == IF Has(session_info, "local_start_ts") THEN session_info
                   ELSE Put(session_info, "local_start_ts", now)
           elapsed == now - info["local_start_ts"]
           duration == Get(info, "duration_sec", DefaultDurationMin * 60)
       IN  /\ session_info' = info
           /\ IF Expired(elapsed, duration)
              THEN tpc' = "finalize" /\ tloc' = NoLocals
              ELSE tpc' = "control"
                   /\ tloc' = [tloc EXCEPT !.elapsed = elapsed, !.duration = duration]
    /\ UNCHANGED <<now, session_active, flow_duty, temp_duty, sampler_vars, tele, last, main_vars>>

\* lines 424, 384-398: finalize_session up to the remote status update
TeleFinalize ==
    /\ tpc = "finalize"
    /\ LET o == finalize_session(session_info, << >>)
       IN  /\ session_active' = o.active
           /\ flow_duty' = o.fd
           /\ temp_duty' = o.td
           /\ tele' = [NoTele EXCEPT !.kind =
                          IF o.log = <<"off", "status_completed">> THEN "completed"
                          ELSE "none"]
    /\ tpc' = "clear"
    /\ UNCHANGED <<now, session_info, sampler_vars, tloc, last, main_vars>>

\* lines 400, 425: session_info.clear(), then continue
TeleClear ==
    /\ tpc = "clear"
    /\ session_info' = Cleared(session_info)
    /\ tpc' = "head"
    /\ UNCHANGED <<now, session_active, flow_duty, temp_duty, sampler_vars, tloc,
                   tele, last, main_vars>>

\* lines 428-429: in auto mode compute the targets from the published bpm
TeleControl ==
    /\ tpc = "control"
    /\ IF Get(session_info, "mode", "") = "auto"
       THEN LET a == apply_auto_mode(tloc.elapsed, tloc.duration, bpm)
            IN  /\ tloc' = [tloc EXCEPT !.af = a.flow, !.at = a.temp]
                /\ tpc' = "write"
       ELSE /\ tpc' = "publish"
            /\ tloc' = NoLocals
    /\ UNCHANGED <<now, session_active, session_info, flow_duty, temp_duty,
                   sampler_vars, tele, last, main_vars>>

\* lines 430-433: store the targets and drive the LEDs
TeleWrite ==
    /\ tpc = "write"
    /\ session_info' = Put(Put(session_info, "flow_value", tloc.af),
                           "temp_value", tloc.at)
    /\ flow_duty' = FlowDuty(tloc.af)
    /\ temp_duty' = TempDuty(tloc.at)
    /\ tpc' = "publish"
    /\ tloc' = NoLocals
    /\ UNCHANGED <<now, session_active, sampler_vars, tele, last, main_vars>>

\* lines 436-464: build the record, publish it when the ids are known, sleep
TelePublish ==
    /\ tpc = "publish"
    /\ LET ids == Truthy(Get(session_info, "patient_id", NoVal))
                  /\ Truthy(Get(session_info, "session_id", NoVal))
       IN  tele' = IF ids
                   THEN [kind |-> "telemetry", pulse |-> SafeBpm(bpm)]
                   ELSE NoTele
    /\ tpc' = "head"
    /\ UNCHANGED <<now, session_active, session_info, flow_duty, temp_duty,
                   sampler_vars, tloc, last, main_vars>>

Telemetry == TeleHead \/ TeleTime \/ TeleFinalize \/ TeleClear
             \/ TeleControl \/ TeleWrite \/ TelePublish

---------------------------------------------------------------------------
(* The clock *)

\* Only differences of the clock are read, and only while a start time is
\* recorded: time passing in any other state is not represented.
Advance ==
    /\ now + Quantum <= MaxTime
    /\ session_active \/ Has(session_info, "local_start_ts")
    /\ now' = now + Quantum
    /\ UNCHANGED <<session_active, session_info, flow_duty, temp_duty,
                   sampler_vars, tele_vars, last, main_vars>>

CommandStep == \E c \in LifecycleCommands : OnCommand(c)

ControlStep == \E c \in ControlCommands : OnCommand(c)

Next == CommandStep \/ Telemetry \/ Advance

Spec == Init /\ [][Next]_vars

NextControl == ControlStep \/ Telemetry \/ Advance

SpecControl == Init /\ [][NextControl]_vars

---------------------------------------------------------------------------
(* Sensor sampler: one iteration of the while loop of sensor_sampler       *)

Waves == {"flat", "calm", "fast", "spike"}

\* The IR intensity the sensor port delivers at tick t: a constant signal, or
\* one high sample every 21 ticks (0.42 s) or every 18 ticks (0.36 s), or the
\* latter with one sample ten times higher at tick 42
Wave(w, t) ==
    CASE w = "flat"  -> 0
      [] w = "calm"  -> IF t % 21 = 0 THEN 4 ELSE 0
      [] w = "fast"  -> IF t % 18 = 0 THEN 4 ELSE 0
      [] w = "spike" -> IF t = 42 THEN 40 ELSE IF t % 18 = 0 THEN 4 ELSE 0

RECURSIVE SumSeq(_)
SumSeq(q) == IF q = << >> THEN 0 ELSE Head(q) + SumSeq(Tail(q))

\* while ir_buffer and (t - ir_buffer[0][0]) > WINDOW_SECONDS: pop(0)
RECURSIVE Evict(_, _)
Evict(buf, t) ==
    IF buf # << >> /\ t - buf[1][1] > WindowSeconds * TicksPerSec
    THEN Evict(Tail(buf), t)
    ELSE buf

\* sm: the trailing mean of up to 4 values, as twelfths (12 sm[i] is an integer)
Smoothed(vals) ==
    [i \in 1..Len(vals) |->
        LET st == Max(1, i - 3)
        IN  (12 * SumSeq(SubSeq(vals, st, i))) \div (i - st + 1)]

\* sm[i] > meanv + 0.4 * pstdev(sm): with n = len(sm), S the sum and Q the sum
\* of squares, n sm[i] - S > 0.4 sqrt(n Q - S^2)
AboveThreshold(x, n, S, Q) ==
    LET a == n * x - S
    IN  a > 0 /\ 25 * a * a > 4 * (n * Q - S * S)

\* indices (from 1) of the peaks: for i in range(1, len(sm) - 1)
PeakIndices(sm) ==
    LET n == Len(sm)
        S == SumSeq(sm)
        Q == SumSeq([i \in 1..n |-> sm[i] * sm[i]])
        IsPeak(i) == /\ AboveThreshold(sm[i], n, S, Q)
                     /\ sm[i] > sm[i - 1]
                     /\ sm[i] >= sm[i + 1]
    IN  SelectSeq([k \in 1..(n - 2) |-> k + 1], IsPeak)

\* 0.3 < d < 2.0, d in ticks
ValidDiff(d) == 3 * TicksPerSec < 10 * d /\ d < 2 * TicksPerSec

\* the valid peak-to-peak differences of the buffer, in ticks
PeakDiffs(buf) ==
    LET sm == Smoothed([i \in 1..Len(buf) |-> buf[i][2]])
        pk == PeakIndices(sm)
        diffs == [j \in 1..(Len(pk) - 1) |-> buf[pk[j + 1]][1] - buf[pk[j]][1]]
    IN  IF Len(pk) >= 2 THEN SelectSeq(diffs, ValidDiff) ELSE << >>

\* round(60.0 / avg_int, 1) in tenths, avg_int = sum(diffs) / len(diffs)
BpmOf(diffs) ==
    LET k == Len(diffs)
        S == SumSeq(diffs)
    IN  (2 * 60 * TicksPerSec * 10 * k + S) \div (2 * S)

\* diffs[-20:]
LastTwenty(diffs) ==
    IF Len(diffs) <= 20 THEN diffs ELSE SubSeq(diffs, Len(diffs) - 19, Len(diffs))

\* a sampler that drops the estimate when a window yields no valid difference
EstimateOrNone(diffs, b, rr) ==
    IF diffs # << >>
    THEN [bpm |-> <<BpmOf(diffs)>>, rr |-> LastTwenty(diffs)]
    ELSE [bpm |-> None, rr |-> << >>]

\* lines 276-284: bpm and rr_intervals are assigned only when some valid
\* difference exists
Estimate(diffs, b, rr) ==
    IF diffs # << >>
    THEN [bpm |-> <<BpmOf(diffs)>>, rr |-> LastTwenty(diffs)]
    ELSE [bpm |-> b, rr |-> rr]

\* lines 236-285: take a sample, trim the window, detect the peaks when more
\* than 40 samples are held, republish bpm and rr_intervals, sleep
\* SENSOR_SAMPLE_INTERVAL
SamplerRun ==
    /\ session_active
    /\ now < MaxSampleTime
    /\ \E buf \in {Evict(Append(ir_buffer, <<now, Wave(wave, now)>>), now)} :
         /\ ir_buffer' = buf
         /\ \E est \in {Estimate(IF Len(buf) > MinSamples THEN PeakDiffs(buf) ELSE << >>,
                                  bpm, rr_intervals)} :
              /\ bpm' = est.bpm
              /\ rr_intervals' = est.rr
    /\ now' = now + 1
    /\ UNCHANGED <<session_active, session_info, flow_duty, temp_duty, wave,
                   tele_vars, last, main_vars>>

\* lines 228-234: while no session is active sleep, then drop a non-empty
\* buffer together with bpm
SamplerIdle ==
    /\ ~session_active
    /\ IF ir_buffer # << >>
       THEN ir_buffer' = << >> /\ bpm' = None
       ELSE UNCHANGED <<ir_buffer, bpm>>
    /\ UNCHANGED <<now, session_active, session_info, flow_duty, temp_duty,
                   rr_intervals, wave, tele_vars, last, main_vars>>

Sampler == SamplerRun \/ SamplerIdle

\* The commands that start and end the session p1/s1: with the 12 s auto
\* settings and with the settings of duration zero
SessionCommands ==
    {c \in StartCommands \cup StopCommands :
        /\ c.fail = "none"
        /\ c.ts = Fresh
        /\ c.cmd = "start_session" =>
               /\ c.pid = Str("p1") /\ c.sid = Str("s1")
               /\ c.settings.mode = Str("auto")
               /\ c.settings.duration.kind = "num"}

\* Arrival times of the commands: before the first sample, or, for a stop
\* and for the start of duration zero, once the sampler has had the time to
\* take more than MinSamples samples
SessionStep ==
    \E c \in SessionCommands :
        /\ \/ now = 0
           \/ now > MinSamples /\ c.cmd = "stop_session"
           \/ now > MinSamples /\ c.settings.duration = Num(0)
        /\ OnCommand(c)

InitSampler == InitProgram /\ wave \in Waves

NextSampler == SessionStep \/ Telemetry \/ Sampler

SpecSampler == InitSampler /\ [][NextSampler]_vars

\* The sampler thread with the commands alone: the telemetry thread writes
\* none of ir_buffer, bpm and rr_intervals
NextWindow == SessionStep \/ Sampler

SpecWindow == InitSampler /\ [][NextWindow]_vars

---------------------------------------------------------------------------
(* Auto stop: sessions that run to their end, no stop or emergency command *)

\* start_session of p1/s1 with a fetched duration (12 s, zero, negative),
\* set_flow with a number and set_mode "auto"
AutoStopCommands ==
    {c \in ControlCommands :
        \/ c.cmd = "start_session" /\ c.settings.duration.kind = "num"
        \/ c.cmd = "set_flow" /\ c.value = Num(1 * 1000)
        \/ c.cmd = "set_mode" /\ c.value = Str("auto")}

\* The commands arrive during the first MaxTime ticks
AutoStopStep ==
    \E c \in AutoStopCommands :
        /\ c.cmd = "start_session" => now <= MaxTime
        /\ OnCommand(c)

\* After the commands, the telemetry thread sleeps between its iterations
\* (line 464) until the default duration of a session has passed
Elapse ==
    /\ tpc = "head"
    /\ session_active /\ Has(session_info, "local_start_ts")
    /\ now <= MaxTime
    /\ now' = now + DefaultDurationMin * 60 * TicksPerSec
    /\ UNCHANGED <<session_active, session_info, flow_duty, temp_duty,
                   sampler_vars, tele_vars, last, main_vars>>

NextAutoStop == AutoStopStep \/ Telemetry \/ Advance \/ Elapse

\* the telemetry thread keeps running and time keeps passing
SpecAutoStop ==
    /\ Init /\ [][NextAutoStop]_vars
    /\ WF_vars(Telemetry) /\ WF_vars(Advance) /\ SF_vars(Elapse)

---------------------------------------------------------------------------
(* Redelivery: the transport hands over a command a second time while its  *)
(* acknowledgement has not landed in the data of the delivered snapshot    *)

\* start_session of p1/s1 with a fetched duration (12 s, negative),
\* stop_session, and set_flow with a number
RedeliveryCommands ==
    {c \in ControlCommands :
        \/ c.cmd = "start_session" /\ c.settings.duration.kind = "num"
        \/ c.cmd = "stop_session"
        \/ c.cmd = "set_flow" /\ c.value.kind = "num"}

\* first delivery: the command is handled and acknowledged (line 581)
Deliver ==
    \E c \in RedeliveryCommands :
        /\ HandleCommand(c)
        /\ pending' = <<c>>
        /\ UNCHANGED mpc

\* the same document is delivered again with ack still unset in its data:
\* the check of line 475 lets it through
Redeliver ==
    /\ pending # << >>
    /\ HandleCommand(pending[1])
    /\ UNCHANGED main_vars

\* the acknowledgement lands: from now on line 475 skips the document
AckLands ==
    /\ pending # << >>
    /\ pending' = << >>
    /\ UNCHANGED <<now, session_active, session_info, flow_duty, temp_duty,
                   sampler_vars, tele_vars, last, mpc>>

NextRedelivery == Deliver \/ Redeliver \/ AckLands \/ Telemetry \/ Advance

SpecRedelivery == Init /\ [][NextRedelivery]_vars

---------------------------------------------------------------------------
(* Shutdown: main on KeyboardInterrupt (lines 630-635)                     *)

\* line 632: stop_threads = True
Interrupt ==
    /\ mpc = "run"
    /\ mpc' = "interrupted"
    /\ UNCHANGED <<now, session_active, session_info, flow_duty, temp_duty,
                   sampler_vars, tele_vars, last, pending>>

\* lines 633-634: stop_sensor_hw(), turn_off_leds()
MainOff ==
    /\ mpc = "interrupted"
    /\ flow_duty' = 0
    /\ temp_duty' = 0
    /\ mpc' = "off"
    /\ UNCHANGED <<now, session_active, session_info, sampler_vars, tele_vars,
                   last, pending>>

\* line 635: time.sleep(1), then main returns and the process exits with
\* its daemon threads
MainExit ==
    /\ mpc = "off"
    /\ mpc' = "exit"
    /\ UNCHANGED <<now, session_active, session_info, flow_duty, temp_duty,
                   sampler_vars, tele_vars, last, pending>>

\* start_session of p1/s1 with the 12 s auto settings, set_flow with a number
ShutdownCommands ==
    {c \in ControlCommands :
        \/ c.cmd = "start_session" /\ c.settings.mode = Str("auto")
        \/ c.cmd = "set_flow" /\ c.value.kind = "num"}

\* the commands are delivered before the shutdown signal
ShutdownStep == mpc = "run" /\ \E c \in ShutdownCommands : OnCommand(c)

\* the telemetry thread is a daemon: it runs until the process exits
TelemetryDaemon == mpc # "exit" /\ Telemetry

NextShutdown == ShutdownStep \/ TelemetryDaemon \/ Interrupt \/ MainOff \/ MainExit

SpecShutdown == Init /\ [][NextShutdown]_vars

---------------------------------------------------------------------------
(* apply_auto_mode on its own: the telemetry thread stands at the call of  *)
(* line 429 with every combination of elapsed, duration and bpm below, the *)
(* ends of the session included, and makes the call.                       *)

AutoDurations == {12, 2700}

\* elapsed times (ticks) from 0 to the whole duration d (seconds)
AutoElapsed(d) == {(k * d * TicksPerSec) \div AutoSteps : k \in 0..AutoSteps}

\* the published bpm: None or a value in tenths
AutoPulses == {None} \cup {<<10 * p>> : p \in 0..MaxPulse}

InitAuto ==
    /\ wave = "flat"
    /\ ir_buffer = << >>
    /\ rr_intervals = << >>
    /\ flow_duty = 0
    /\ temp_duty = 0
    /\ tele = NoTele
    /\ last = [cmd |-> "", stale |-> FALSE, err |-> "", acks |-> 0,
               raised |-> FALSE, log |-> << >>]
    /\ pending = << >>
    /\ mpc = "run"
    /\ session_active = TRUE
    /\ tpc = "control"
    /\ bpm \in AutoPulses
    /\ \E d \in AutoDurations : \E e \in AutoElapsed(d) :
           /\ now = e
           /\ session_info = [mode |-> "auto", duration_sec |-> d,
                              local_start_ts |-> 0]
           /\ tloc = [NoLocals EXCEPT !.elapsed = e, !.duration = d]

NextAuto == TeleControl

SpecAuto == InitAuto /\ [][NextAuto]_vars

---------------------------------------------------------------------------
(* Properties *)

InfoEmpty == DOMAIN session_info = {}

LedsOff == flow_duty = 0 /\ temp_duty = 0

HasIds(info) == /\ Truthy(Get(info, "patient_id", NoVal))
                /\ Truthy(Get(info, "session_id", NoVal))

\* the command passed the staleness check and was dispatched
Dispatched(c) == ~IsStale(c.ts) \/ c.fail = "stale_ack"

InLog(log, e) == \E i \in 1..Len(log) : log[i] = e

\* every call in E is preceded in the log by the call e
PrecededBy(log, E, e) ==
    \A j \in 1..Len(log) : log[j] \in E => \E i \in 1..(j - 1) : log[i] = e

EmergencyPublishes == {"alert", "session_alert", "status_stopped_emergency"}

\* C1: whenever emergency_stop runs, the actuators are switched off before
\* any remote publish is attempted, and the run ends with the session
\* cleared (session_info empty, session_active false, outputs off) whichever
\* publish fails.
C1_EmergencyStopClearsSession ==
    [][\A c \in EmergencyCommands :
          (Dispatched(c) /\ OnCommand(c)) =>
              /\ PrecededBy(last'.log, EmergencyPublishes, "off")
              /\ LedsOff'
              /\ ~session_active'
              /\ InfoEmpty']_vars

\* C2: once a telemetry iteration of an active session has published a pulse
\* outside [PULSE_MIN, PULSE_MAX], the session has been stopped: it is no
\* longer active and its session_info is cleared.
C2_PulseOutOfRangeStops ==
    (/\ tele.kind = "telemetry"
     /\ tele.pulse < PULSE_MIN * 10 \/ tele.pulse > PULSE_MAX * 10)
    => (~session_active /\ InfoEmpty)

\* C3: in every state with a live session the setpoints are within the
\* device-safe bounds: temp_value <= TEMP_MAX_SAFE and flow_value >=
\* FLOW_MIN_SAFE.
C3_SetpointsWithinSafeBounds ==
    session_active =>
        /\ Has(session_info, "flow_value") =>
               session_info["flow_value"] >= FLOW_MIN_SAFE * 1000
        /\ Has(session_info, "temp_value") =>
               session_info["temp_value"] <= TEMP_MAX_SAFE * 1000

\* C4: between two operations (the telemetry thread at its loop head),
\* session_info is non-empty exactly when session_active is true.
C4_InfoIffActive ==
    tpc = "head" => (~InfoEmpty <=> session_active)

\* C5: every command handled has been acknowledged exactly once by its
\* handling.
C5_AcknowledgedExactlyOnce ==
    last.cmd # "" => last.acks = 1

\* C6: a start_session handled while a session is active is acknowledged
\* with an error ("Session already active", or "stale_command" when it is
\* skipped as stale) and changes neither session_info nor session_active.
C6_StartWhileActiveRejected ==
    [][\A c \in StartCommands :
          (session_active /\ last'.cmd = c.cmd /\ OnCommand(c)) =>
              /\ last'.err = IF Dispatched(c) THEN "Session already active"
                             ELSE "stale_command"
              /\ last'.acks = 1
              /\ session_info' = session_info
              /\ session_active' = session_active]_vars

\* C6 witness: a start_session has just been refused in a live session
C6_Witness ==
    /\ last.cmd = "start_session"
    /\ last.err = "Session already active"
    /\ last.acks = 1
    /\ session_active
    /\ HasIds(session_info)

\* the command was issued more than 300 s ago
Aged(c) == c.ts.age > StaleSeconds

\* C7: a command whose issued_at is more than 300 s old is acknowledged with
\* the error "stale_command" and leaves session_active, session_info and the
\* actuator outputs unchanged.
C7_StaleCommandNoEffect ==
    [][\A c \in LifecycleCommands :
          (Aged(c) /\ OnCommand(c)) =>
              /\ last'.err = "stale_command"
              /\ last'.acks = 1
              /\ UNCHANGED <<session_active, session_info, flow_duty, temp_duty>>]_vars

\* C8: set_flow and set_temp handled while no session is active are
\* acknowledged with an error and change neither session_info nor the
\* actuator outputs.
C8_SetpointNeedsActiveSession ==
    [][\A c \in ControlCommands :
          (/\ c.cmd \in {"set_flow", "set_temp"}
           /\ ~session_active /\ OnCommand(c)) =>
              /\ last'.err # ""
              /\ UNCHANGED <<session_info, flow_duty, temp_duty>>]_vars

\* C9: after set_flow with a value has been handled in an active session, no
\* step of the telemetry thread changes the flow setpoint, the flow output
\* or the manual mode while the session stays active.
C9_OverrideWinsOverAuto ==
    [][(/\ last.cmd = "set_flow" /\ InLog(last.log, "flow_led")
        /\ session_active /\ session_active'
        /\ Telemetry) =>
           /\ Get(session_info', "flow_value", 0) = Get(session_info, "flow_value", 0)
           /\ flow_duty' = flow_duty
           /\ Get(session_info', "mode", "") = "manual"]_vars

\* C10: a stop_session handled while a session is active switches the
\* outputs off, then publishes the status "completed", and leaves the
\* session idle with session_info empty; handled while idle it is
\* acknowledged without error, publishes nothing and leaves the session idle
\* with session_info empty.
C10_StopSessionIdempotent ==
    [][\A c \in StopCommands :
          (Dispatched(c) /\ OnCommand(c)) =>
              /\ ~session_active' /\ InfoEmpty' /\ LedsOff'
              /\ last'.err = "" /\ last'.acks = 1
              /\ PrecededBy(last'.log, {"status_completed"}, "off")
              /\ InLog(last'.log, "status_completed") <=> session_active]_vars

\* C11: an active session that receives no stop or emergency command
\* eventually becomes idle; the telemetry iteration that finds elapsed >=
\* duration_sec goes to finalize_session, and publishes no telemetry record.
C11_AutoStop ==
    /\ session_active ~> ~session_active
    /\ [][(TeleTime /\ Expired(now - session_info'["local_start_ts"],
                               Get(session_info, "duration_sec", DefaultDurationMin * 60)))
            => tpc' = "finalize"]_vars
    /\ [](tpc \in {"finalize", "clear"} => tele.kind # "telemetry")

\* C11 witness: the telemetry thread has just ended a session whose duration
\* elapsed and published its completion
C11_Witness ==
    /\ tpc = "clear"
    /\ tele.kind = "completed"
    /\ ~session_active
    /\ Get(session_info, "duration_sec", 0) > 0
    /\ Expired(now - session_info["local_start_ts"], session_info["duration_sec"])

\* C12: the mode of session_info is always auto or manual; a set_mode with
\* another value changes no state, and a set_mode with auto or manual changes
\* the mode only.
C12_SetModeAutoOrManual ==
    /\ [](Has(session_info, "mode") => session_info["mode"] \in {"auto", "manual"})
    /\ [][\A c \in ControlCommands :
             (c.cmd = "set_mode" /\ OnCommand(c)) =>
                 /\ UNCHANGED <<session_active, flow_duty, temp_duty>>
                 /\ session_info' = IF c.value \in {Str("auto"), Str("manual")}
                                    THEN Put(session_info, "mode", c.value.str)
                                    ELSE session_info]_vars

\* C13: a redelivered command, whose first handling is done and whose
\* acknowledgement has not landed, is not processed a second time: its
\* handling calls no actuator or remote port and changes neither the session
\* nor the actuator outputs.
C13_RedeliveryNotProcessedTwice ==
    [][Redeliver =>
           /\ last'.log = << >>
           /\ UNCHANGED <<session_active, session_info, flow_duty, temp_duty>>]_vars

\* C14: when the process exits after the shutdown signal, the actuator
\* outputs are off, whatever telemetry iteration or command was in progress.
C14_ActuatorsOffAtExit ==
    mpc = "exit" => LedsOff

\* C15: a start_session with both ids, handled while no session is active,
\* whose metadata fetch raises or finds no document makes the session active
\* with duration 45 min, mode manual, flow 30.0 and temp 40.0, the ids of the
\* command, the local start time, and the outputs driven to 30.0 and 40.0.
C15_StartDefaultsOnFetchFailure ==
    [][\A c \in StartCommands :
          (/\ ~session_active /\ Dispatched(c)
           /\ Truthy(c.pid) /\ Truthy(c.sid)
           /\ c.fetch \in {"error", "absent"}
           /\ last'.cmd = c.cmd
           /\ OnCommand(c)) =>
              /\ session_active'
              /\ DOMAIN session_info' = Keys
              /\ session_info'["duration_sec"] = DefaultDurationMin * 60
              /\ session_info'["mode"] = "manual"
              /\ session_info'["flow_value"] = 30 * 1000
              /\ session_info'["temp_value"] = 40 * 1000
              /\ session_info'["patient_id"] = c.pid
              /\ session_info'["session_id"] = c.sid
              /\ session_info'["local_start_ts"] = now
              /\ flow_duty' = 15 /\ temp_duty' = 50]_vars

\* C15 witness: a start_session has just started a session with the default
\* configuration
C15_Witness ==
    /\ last.cmd = "start_session"
    /\ InLog(last.log, "fetch")
    /\ session_active
    /\ Get(session_info, "duration_sec", 0) = DefaultDurationMin * 60
    /\ Get(session_info, "mode", "") = "manual"
    /\ Get(session_info, "flow_value", 0) = 30 * 1000
    /\ Get(session_info, "temp_value", 0) = 40 * 1000
    /\ Get(session_info, "local_start_ts", -1) = now
    /\ flow_duty = 15 /\ temp_duty = 50

\* C16: every live session has duration_sec > 0.
C16_DurationPositive ==
    (session_active /\ Has(session_info, "duration_sec"))
    => session_info["duration_sec"] > 0

\* C17: at the moment a session becomes active the sample buffer is empty
\* and no pulse estimate is held (bpm is None, rr_intervals is empty).
C17_NoStaleSamplerData ==
    [][(~session_active /\ session_active') =>
           (ir_buffer = << >> /\ bpm = None /\ rr_intervals = << >>)]_vars

\* C18: once a session has ended (no session active, session_info empty,
\* outputs off), no step of the telemetry thread writes session_info or
\* drives the outputs.
C18_EndedSessionStaysOff ==
    [][(~session_active /\ InfoEmpty /\ LedsOff /\ Telemetry) =>
           (InfoEmpty' /\ LedsOff')]_vars

\* the duration of the recorded session has elapsed
SessionElapsed ==
    /\ Has(session_info, "local_start_ts")
    /\ Expired(now - session_info["local_start_ts"],
               Get(session_info, "duration_sec", DefaultDurationMin * 60))

\* C19: the finalize_session called by the auto stop of the telemetry thread
\* ends no active session other than one whose duration has elapsed.
C19_AutoStopEndsElapsedSessionOnly ==
    [][(TeleFinalize /\ session_active) => SessionElapsed]_vars

\* C20: while a session is active, a sampler iteration whose window yields no
\* valid peak-to-peak difference (fewer than 2 peaks, or no difference inside
\* (0.3 s, 2.0 s)) leaves bpm and rr_intervals unchanged; bpm becomes None
\* only in the idle branch of the sampler.
C20_BadWindowKeepsEstimate ==
    /\ [][(SamplerRun /\ PeakDiffs(ir_buffer') = << >>) =>
              UNCHANGED <<bpm, rr_intervals>>]_vars
    /\ [][(bpm # None /\ bpm' = None) => SamplerIdle]_vars

\* C20 witness: in an active session the window of more than 40 samples
\* yields no valid difference and the estimate computed earlier is held
C20_Witness ==
    /\ session_active
    /\ Len(ir_buffer) > MinSamples
    /\ PeakDiffs(ir_buffer) = << >>
    /\ bpm # None
    /\ rr_intervals # << >>

\* the telemetry thread has made the call of apply_auto_mode: tloc holds the
\* arguments and the returned targets
AutoApplied == tpc = "write"

\* C21: for duration 2700 and any pulse input, apply_auto_mode returns flow
\* 20.0 and temp 37.0 both at the start of warmup (elapsed = 0) and at the end
\* of cooldown (elapsed = duration).
C21_AutoTargetsEndpoints ==
    (/\ AutoApplied
     /\ tloc.duration = 2700
     /\ tloc.elapsed \in {0, 2700 * TicksPerSec})
        => (tloc.af = 20000 /\ tloc.at = 37000)

\* C21 witness: the call at the end of cooldown of a 2700 s session, with a
\* pulse far above 60, has returned 20.0 and 37.0
C21_Witness ==
    /\ AutoApplied
    /\ tloc.duration = 2700
    /\ tloc.elapsed = 2700 * TicksPerSec
    /\ bpm = <<2000>>
    /\ tloc.af = 20000
    /\ tloc.at = 37000

\* the call was made in the maintenance phase: 0.10 <= elapsed/duration <= 0.90
Maintenance ==
    /\ 10 * tloc.elapsed >= tloc.duration * TicksPerSec
    /\ 10 * tloc.elapsed <= 9 * tloc.duration * TicksPerSec

\* the bias the call added to the base flow 30.0: the returned flow less the
\* base and the oscillation 0.5 * sin(elapsed / 5.0) of line 339
FlowBias == tloc.af - 30000 - SinMilli((tloc.elapsed * 1000) \div (5 * TicksPerSec)) \div 2

\* the bias the call added to the base temp 38.0
TempBias == tloc.at - 38000

\* C22: in the maintenance phase the pulse bias is clamped for every pulse
\* value: the flow offset lies in [-2, 5] and the temp offset in [-0.5, 1.5]
\* (5 and 1.5 at pulse 200, 0 and 0 at pulse 60), and an absent pulse is
\* treated as 72 (offsets 1.2 and 0.6).
C22_OffsetsClamped ==
    (AutoApplied /\ Maintenance) =>
        /\ FlowBias >= -2000 /\ FlowBias <= 5000
        /\ TempBias >= -500 /\ TempBias <= 1500
        /\ bpm = <<2000>> => (FlowBias = 5000 /\ TempBias = 1500)
        /\ bpm = <<600>> => (FlowBias = 0 /\ TempBias = 0)
        /\ bpm = None => (FlowBias = (720 - 600) * 10 /\ TempBias = (720 - 600) * 5)

\* C22 witness: a call in the middle of the maintenance phase with pulse 200
\* has returned the base values plus the upper clamps
C22_Witness ==
    /\ AutoApplied
    /\ Maintenance
    /\ 10 * tloc.elapsed > 4 * tloc.duration * TicksPerSec
    /\ 10 * tloc.elapsed < 6 * tloc.duration * TicksPerSec
    /\ bpm = <<2000>>
    /\ FlowBias = 5000
    /\ TempBias = 1500

====
